---- MODULE Spec2Model ----
(***************************************************************************)
(* Model of json_export.py (VS_modsList_Creator): the scan of a mod folder *)
(* by list_mods, its worker threads running process_mod_file, the catalog  *)
(* lookup get_api_info, the version matcher get_mainfile_for_version, the  *)
(* download link builder make_dl_link and the final sort / save_json.      *)
(*                                                                         *)
(* Python strings that the code inspects character by character (ModId,    *)
(* version, query string) are sequences of one-character strings.  None is *)
(* the one-element sequence NoneVal, JSON null is NullVal, the empty       *)
(* string is << >>.  A string built by concatenation (an f-string) is the  *)
(* tuple of its pieces.  A dictionary key that was never set reads NoKey.  *)
(***************************************************************************)
EXTENDS Integers, Sequences, FiniteSets, TLC

VARIABLES
    folder,         \* mods_folder.iterdir(): the candidate files, in listing order
    phase,          \* position of the main thread inside list_mods
    wpc,            \* position of each process_mod_file worker
    wlocal,         \* local variables of each worker
    collected,      \* futures whose result() the as_completed loop has taken
    mods,           \* mods_data["Mods"], shared by the workers
    invalid_files,  \* invalid_files, shared by the workers
    saved,          \* the manifest handed to save_json
    requests,       \* number of requests.get calls issued for each candidate
    mv_version,     \* argument mod_version of a direct call of the version matcher
    mv_releases,    \* argument api_response of that call
    mv_result,      \* its return value
    fj_text,        \* a descriptor text, the argument json_data of fix_json
    fj_once,        \* fix_json(fj_text)
    fj_twice        \* fix_json(fix_json(fj_text))

scanVars == <<folder, phase, wpc, wlocal, collected, mods, invalid_files, saved, requests>>
matchVars == <<mv_version, mv_releases, mv_result>>
fixVars == <<fj_text, fj_once, fj_twice>>
vars == <<folder, phase, wpc, wlocal, collected, mods, invalid_files, saved, requests,
          mv_version, mv_releases, mv_result, fj_text, fj_once, fj_twice>>

-----------------------------------------------------------------------------
(* Bounds of the model *)

NumFiles == 2
MaxReleases == 2

Files == 1..NumFiles

-----------------------------------------------------------------------------
(* Program constants *)

MOD_API_BASE == "https://mods.vintagestory.at/api/mod/"
MOD_DB_URL == "https://mods.vintagestory.at/show/mod/"
MOD_DOWNLOAD_BASE == "https://moddbcdn.vintagestory.at/"

-----------------------------------------------------------------------------
(* Python values *)

NoneVal == <<"<None>">>
NullVal == <<"<null>">>
EmptyStr == << >>
NoKey == <<"<no key>">>
NoSide == "<no key>"
LocalOnly == <<"Local mod only">>
EmptyList == <<"<[]>">>

\* Python truthiness of a string-or-None value
Truthy(v) == v # NoneVal /\ v # EmptyStr

\* The characters of the model's strings, in code point order
AsciiOrder ==
    <<" ", "&", "-", ".", "0", "1", "2", "3", "4", "5", "6", "7", "8", "9", "=",
      "A", "B", "C", "D", "E", "F", "G", "H", "I", "J", "K", "L", "M",
      "N", "O", "P", "Q", "R", "S", "T", "U", "V", "W", "X", "Y", "Z", "_",
      "a", "b", "c", "d", "e", "f", "g", "h", "i", "j", "k", "l", "m",
      "n", "o", "p", "q", "r", "s", "t", "u", "v", "w", "x", "y", "z">>

\* the rank of each character in code point order
OrdTable ==
    [ch \in { AsciiOrder[k] : k \in 1..Len(AsciiOrder) } |->
        CHOOSE k \in 1..Len(AsciiOrder) : AsciiOrder[k] = ch]

Ord(ch) == OrdTable[ch]

IsUpper(ch) == Ord(ch) >= Ord("A") /\ Ord(ch) <= Ord("Z")

\* str.lower() on one character
LowerChar(ch) == IF IsUpper(ch) THEN AsciiOrder[Ord(ch) - Ord("A") + Ord("a")] ELSE ch

\* str.lower()
Lower(s) == [k \in 1..Len(s) |-> LowerChar(s[k])]

\* Python's < on strings: lexicographic by code point, a proper prefix is smaller
RECURSIVE StrLess(_, _)
StrLess(s, t) ==
    IF t = << >> THEN FALSE
    ELSE IF s = << >> THEN TRUE
    ELSE IF Ord(Head(s)) # Ord(Head(t)) THEN Ord(Head(s)) < Ord(Head(t))
    ELSE StrLess(Tail(s), Tail(t))

-----------------------------------------------------------------------------
(* The candidate files a folder can hold *)

Str_Alpha == <<"A", "l", "p", "h", "a">>
Str_alpha == <<"a", "l", "p", "h", "a">>
Str_Zeta == <<"Z", "e", "t", "a">>
Ver_1_0 == <<"1", ".", "0">>
Ver_2_0 == <<"2", ".", "0">>
Ver_3_0 == <<"3", ".", "0">>

\* what a file holds: for an archive the values of its modinfo.json, for a
\* source file the text that the four regular expressions of get_cs_info find
Fields(modid, name, version, description, side, namespace) ==
    [modid |-> modid, name |-> name, version |-> version,
     description |-> description, side |-> side, namespace |-> namespace]

NoFields == Fields(NoneVal, NoneVal, NoneVal, NoneVal, NoneVal, NoneVal)

ZipFile(state, desc) == [suffix |-> ".zip", state |-> state, desc |-> desc]
CsFile(state, desc) == [suffix |-> ".cs", state |-> state, desc |-> desc]

ZipDesc(modid, name, version, description) ==
    Fields(modid, name, version, description, NoneVal, NoneVal)

CsText(version, side, namespace, description) ==
    Fields(NoneVal, NoneVal, version, description, side, namespace)

Contents ==
    { ZipFile("notzip", NoFields),
      ZipFile("noentry", NoFields),
      ZipFile("malformed", NoFields),
      ZipFile("ok", ZipDesc(NullVal, <<"N">>, Ver_1_0, NoneVal)),
      ZipFile("ok", ZipDesc(Str_Alpha, <<"A">>, Ver_1_0, <<"d">>)),
      ZipFile("ok", ZipDesc(Str_alpha, <<"B">>, Ver_3_0, NullVal)),
      ZipFile("ok", ZipDesc(Str_Zeta, <<"D">>, Ver_2_0, <<"d">>)),
      CsFile("unreadable", NoFields),
      CsFile("ok", CsText(Ver_2_0, NoneVal, NoneVal, NoneVal)),
      CsFile("ok", CsText(Ver_1_0, <<"S">>, Str_Alpha, <<"d">>)),
      [suffix |-> ".txt", state |-> "ok", desc |-> NoFields] }

-----------------------------------------------------------------------------
(* Readers *)

\* sanitize_json_data on one value of the descriptor
sanitize_json_data(v) == IF v = NullVal THEN EmptyStr ELSE v

\* is_zip_valid: False only when ZipFile raises BadZipFile / LargeZipFile;
\* the name testzip() returns for an entry with a bad CRC is dropped
is_zip_valid(file) == file.state # "notzip"

NoneInfo ==
    [modid |-> NoneVal, name |-> NoneVal, version |-> NoneVal,
     mod_url_dl |-> NoneVal, description |-> NoneVal]

\* zip_ref.open('modinfo.json').read() returns the descriptor: the entry is
\* there, its CRC is right and its text parses.  A CRC failure in another
\* entry ("badentry") does not touch this read; one in the descriptor entry
\* ("baddesc") makes it raise BadZipFile, which the function catches
DescriptorReadable(file) == file.state \in {"ok", "badentry"}

\* get_modinfo_from_zip: (modid, name, version, mod_url_api, description)
get_modinfo_from_zip(file) ==
    IF ~DescriptorReadable(file) THEN NoneInfo
    ELSE [modid |-> sanitize_json_data(file.desc.modid),
          name |-> sanitize_json_data(file.desc.name),
          version |-> sanitize_json_data(file.desc.version),
          mod_url_dl |-> <<MOD_API_BASE, sanitize_json_data(file.desc.modid)>>,
          description |-> sanitize_json_data(file.desc.description)]

\* get_cs_info raises when open() or read() fails
cs_raises(file) == file.state = "unreadable"

\* get_cs_info: (version, side, namespace, modid, mod_url_api, description)
get_cs_info(file) ==
    LET namespace == file.desc.namespace
        modid == IF Truthy(namespace)
                 THEN SelectSeq(Lower(namespace), LAMBDA ch : ch # " ")
                 ELSE NoneVal
    IN [version |-> file.desc.version, side |-> file.desc.side,
        namespace |-> namespace, modid |-> modid,
        mod_url_dl |-> <<MOD_API_BASE, modid>>,
        description |-> file.desc.description]

\* the archive check without its modid conjunct
ZipRequiredNoId(info) == Truthy(info.name) /\ Truthy(info.version)

\* "if modid and name and version" (archive branch)
ZipRequired(info) == Truthy(info.modid) /\ Truthy(info.name) /\ Truthy(info.version)

\* "if version and side and namespace and modid and mod_url_dl" (source branch);
\* mod_url_dl is a non-empty f-string
CsRequired(info) ==
    Truthy(info.version) /\ Truthy(info.side) /\ Truthy(info.namespace)
        /\ Truthy(info.modid) /\ info.mod_url_dl # EmptyStr

-----------------------------------------------------------------------------
(* Catalog *)

Release(modversion, mainfile) == [modversion |-> modversion, mainfile |-> mainfile]

\* a raw artifact reference "https://host/path?query" as its pieces
Url(host, path, query) == <<host, path, "?", query>>

Url_1 == Url("https://mods.vintagestory.at", "/files/alpha_1.0.zip",
             <<"d", "l", "=", "a", " ", "1", ".", "0">>)
Url_2 == Url("https://mods.vintagestory.at", "/files/zeta_2.0.zip",
             <<"d", "l", "=", "z", "&", "v", "=", "2">>)

AssetId_42 == <<"4", "2">>

\* what requests.get / raise_for_status / response.json() can produce
Answer(kind, assetid, side, releases) ==
    [kind |-> kind, assetid |-> assetid, side |-> side, releases |-> releases]

Failure(kind) == Answer(kind, NoneVal, "<None>", << >>)

\* the release lists the catalog returns during a scan
ScanReleaseLists == { <<Release(Ver_2_0, Url_2), Release(Ver_1_0, Url_1)>> }

CatalogAnswers ==
    { Failure(k) : k \in {"timeout", "http_error", "transport_error", "not_found",
                          "missing_key", "not_object"} }
        \cup { Answer("entry", AssetId_42, "both", rl) : rl \in ScanReleaseLists }

\* get_api_info raises what its except clauses do not name: a "mod" value
\* that is not an object makes data['mod']['assetid'] raise TypeError
api_raises(ans) == ans.kind = "not_object"

ApiTuple(assetid, side, releases) ==
    [ret |-> "tuple", assetid |-> assetid, side |-> side, releases |-> releases]

\* the implicit return None of the Timeout / HTTPError / RequestException handlers
ApiNone == [ret |-> "None", assetid |-> NoneVal, side |-> "<None>", releases |-> << >>]

NotCalled == [ret |-> "unset", assetid |-> NoneVal, side |-> "<None>", releases |-> << >>]

\* get_api_info's return value for a catalog answer it does not raise on
get_api_info(ans) ==
    CASE ans.kind \in {"timeout", "http_error", "transport_error"} -> ApiNone
      [] ans.kind \in {"not_found", "missing_key"} -> ApiTuple(NoneVal, "<None>", NoneVal)
      [] OTHER -> ApiTuple(ans.assetid, ans.side, ans.releases)

\* "get_api_info(modid) or (None, None, [])"
OrDefault(r) == IF r.ret = "None" THEN ApiTuple(NoneVal, "<None>", << >>) ELSE r

-----------------------------------------------------------------------------
(* Version matcher and download link builder *)

\* get_mainfile_for_version: the mainfile of the first release whose modversion
\* equals mod_version, None when the loop ends without a match
\* a matcher that compares the versions case-insensitively
RECURSIVE get_mainfile_for_version_ci(_, _)
get_mainfile_for_version_ci(mod_version, api_response) ==
    IF Len(api_response) = 0 THEN NoneVal
    ELSE IF Head(api_response).modversion # NoKey
            /\ Lower(mod_version) = Lower(Head(api_response).modversion)
         THEN IF Head(api_response).mainfile = NoKey THEN NoneVal
              ELSE Head(api_response).mainfile
         ELSE get_mainfile_for_version_ci(mod_version, Tail(api_response))

\* release.get(key): None when the release has no such key
ReleaseGet(v) == IF v = NoKey THEN NoneVal ELSE v

\* release.get('modversion', []): the empty list when the key is missing
ReleaseGetVersion(v) == IF v = NoKey THEN EmptyList ELSE v

RECURSIVE get_mainfile_for_version(_, _)
get_mainfile_for_version(mod_version, api_response) ==
    IF Len(api_response) = 0 THEN NoneVal
    ELSE IF mod_version = ReleaseGetVersion(Head(api_response).modversion)
         THEN ReleaseGet(Head(api_response).mainfile)
         ELSE get_mainfile_for_version(mod_version, Tail(api_response))

\* urllib.parse.quote(ch, safe="=&") on one character: letters, digits and
\* "_.-~" are never quoted, "=" and "&" are safe, a space becomes %20
QuoteChar(ch) == IF ch = " " THEN <<"%", "2", "0">> ELSE <<ch>>

RECURSIVE Quote(_)
Quote(s) == IF s = << >> THEN << >> ELSE QuoteChar(Head(s)) \o Quote(Tail(s))

\* make_dl_link: MOD_DOWNLOAD_BASE + path + "?" + quoted query
make_dl_link(raw) == <<MOD_DOWNLOAD_BASE, raw[2], "?", Quote(raw[4])>>

-----------------------------------------------------------------------------
(* process_mod_file *)

\* a reader stage that reports every file it does not recognise as invalid
ReaderOutcomeOtherInvalid(file) ==
    CASE file.suffix = ".zip" ->
            IF is_zip_valid(file) /\ ZipRequired(get_modinfo_from_zip(file))
            THEN "read" ELSE "invalid"
      [] file.suffix = ".cs" ->
            IF cs_raises(file) THEN "raised"
            ELSE IF CsRequired(get_cs_info(file)) THEN "read" ELSE "invalid"
      [] OTHER -> "invalid"

\* where the reader stage of process_mod_file leaves a candidate:
\* "read" (go on to the catalog), "invalid" (append the name to invalid_files),
\* "raised" (an exception leaves the worker), "done" (no branch taken)
ReaderOutcome(file) ==
    CASE file.suffix = ".zip" ->
            IF is_zip_valid(file) /\ ZipRequired(get_modinfo_from_zip(file))
            THEN "read" ELSE "invalid"
      [] file.suffix = ".cs" ->
            IF cs_raises(file) THEN "raised"
            ELSE IF CsRequired(get_cs_info(file)) THEN "read" ELSE "invalid"
      [] OTHER -> "done"

Locals(modid, name, version, description, api) ==
    [modid |-> modid, name |-> name, version |-> version,
     description |-> description, api |-> api]

NoLocals == Locals(NoneVal, NoneVal, NoneVal, NoneVal, NotCalled)

\* the worker's local variables after the reader stage
ReaderLocals(file) ==
    CASE file.suffix = ".zip" /\ is_zip_valid(file) ->
            LET info == get_modinfo_from_zip(file)
            IN Locals(info.modid, info.name, info.version, info.description, NotCalled)
      [] file.suffix = ".cs" /\ ~cs_raises(file) ->
            LET info == get_cs_info(file)
            IN Locals(info.modid, info.namespace, info.version, info.description, NotCalled)
      [] OTHER -> NoLocals

Entry(f, name, version, modid, description, side, url_mod, url_download) ==
    [File |-> f, Name |-> name, Version |-> version, ModId |-> modid,
     Description |-> description, Side |-> side, url_mod |-> url_mod,
     url_download |-> url_download]

\* mod_entry as first built: the archive branch sets the three defaults,
\* the source branch sets no Side, url_mod or url_download key
Baseline(f, suffix, loc) ==
    IF suffix = ".zip"
    THEN Entry(f, loc.name, loc.version, loc.modid, loc.description,
               "Unknown", LocalOnly, LocalOnly)
    ELSE Entry(f, loc.name, loc.version, loc.modid, loc.description,
               NoSide, NoKey, NoKey)

\* the mainfile the worker looks up "if assetid", None otherwise
MatchedMainfile(loc) ==
    IF Truthy(loc.api.assetid)
    THEN get_mainfile_for_version(loc.version, loc.api.releases)
    ELSE NoneVal

\* mod_entry.update({...}) of process_mod_file
Updated(entry, loc, mainfile) ==
    [entry EXCEPT !.Side = loc.api.side,
                  !.url_mod = <<MOD_DB_URL, loc.api.assetid>>,
                  !.url_download = mainfile]

\* the record process_mod_file appends for file number f
ModEntry(f, suffix, loc) ==
    LET mainfile == MatchedMainfile(loc)
    IN IF Truthy(mainfile)
       THEN Updated(Baseline(f, suffix, loc), loc, mainfile)
       ELSE Baseline(f, suffix, loc)

-----------------------------------------------------------------------------
(* list_mods: the final sort *)

\* a sort key that forgets .lower()
SortKeyRaw(mod) == IF Truthy(mod.ModId) THEN mod.ModId ELSE EmptyStr

\* key=lambda mod: mod["ModId"].lower() if mod["ModId"] else ""
SortKey(mod) == IF Truthy(mod.ModId) THEN Lower(mod.ModId) ELSE EmptyStr

\* list.sort is stable: a record goes after every record whose key is not greater
RECURSIVE InsertSorted(_, _)
InsertSorted(rec, s) ==
    IF Len(s) = 0 THEN <<rec>>
    ELSE IF StrLess(SortKey(rec), SortKey(Head(s))) THEN <<rec>> \o s
    ELSE <<Head(s)>> \o InsertSorted(rec, Tail(s))

RECURSIVE SortMods(_)
SortMods(s) ==
    IF Len(s) = 0 THEN << >>
    ELSE InsertSorted(s[Len(s)], SortMods(SubSeq(s, 1, Len(s) - 1)))

-----------------------------------------------------------------------------
(* The scan: list_mods and its workers *)

NotCalledYet == <<"<not called>">>

\* the version matcher is not called directly during a scan
MatcherIdle ==
    /\ mv_version = EmptyStr
    /\ mv_releases = << >>
    /\ mv_result = NotCalledYet

\* fix_json is not called directly during a scan
FixIdle ==
    /\ fj_text = EmptyStr
    /\ fj_once = NotCalledYet
    /\ fj_twice = NotCalledYet

Init ==
    /\ folder \in [Files -> Contents]
    /\ phase = "submit"
    /\ wpc = [i \in Files |-> "none"]
    /\ wlocal = [i \in Files |-> NoLocals]
    /\ collected = {}
    /\ mods = << >>
    /\ invalid_files = << >>
    /\ saved = << >>
    /\ requests = [i \in Files |-> 0]
    /\ MatcherIdle
    /\ FixIdle

\* a future taken for complete as soon as it was submitted
FutureDoneEarly(i) == wpc[i] # "none"

\* a future is complete: its worker returned or raised.  as_completed yields
\* only such futures and the executor's exit waits until all are
FutureDone(i) == wpc[i] \in {"done", "raised"}

\* executor.submit(process_mod_file, file, ...), in listing order
Submit ==
    /\ phase = "submit"
    /\ \E i \in Files :
        /\ wpc[i] = "none"
        /\ \A j \in Files : j < i => wpc[j] # "none"
        /\ wpc' = [wpc EXCEPT ![i] = "pending"]
    /\ UNCHANGED <<folder, phase, wlocal, collected, mods, invalid_files, saved, requests>>
    /\ UNCHANGED matchVars
    /\ UNCHANGED fixVars

\* the submit loop ends, the as_completed loop starts
SubmitDone ==
    /\ phase = "submit"
    /\ \A i \in Files : wpc[i] # "none"
    /\ phase' = "collect"
    /\ UNCHANGED <<folder, wpc, wlocal, collected, mods, invalid_files, saved, requests>>
    /\ UNCHANGED matchVars
    /\ UNCHANGED fixVars

\* the reader stage of process_mod_file
Reader(i) ==
    /\ wpc[i] = "pending"
    /\ wpc' = [wpc EXCEPT ![i] = ReaderOutcome(folder[i])]
    /\ wlocal' = [wlocal EXCEPT ![i] = ReaderLocals(folder[i])]
    /\ UNCHANGED <<folder, phase, collected, mods, invalid_files, saved, requests>>
    /\ UNCHANGED matchVars
    /\ UNCHANGED fixVars

\* get_api_info(modid): one requests.get, whatever the catalog answers
Request(i) ==
    /\ wpc[i] = "read"
    /\ requests' = [requests EXCEPT ![i] = @ + 1]
    /\ \E ans \in CatalogAnswers :
        IF api_raises(ans)
        THEN /\ wpc' = [wpc EXCEPT ![i] = "raised"]
             /\ UNCHANGED wlocal
        ELSE /\ wpc' = [wpc EXCEPT ![i] = "got"]
             /\ wlocal' = [wlocal EXCEPT ![i].api = OrDefault(get_api_info(ans))]
    /\ UNCHANGED <<folder, phase, collected, mods, invalid_files, saved>>
    /\ UNCHANGED matchVars
    /\ UNCHANGED fixVars

\* mods_data["Mods"].append(mod_entry)
AppendMod(i) ==
    /\ wpc[i] = "got"
    /\ mods' = Append(mods, ModEntry(i, folder[i].suffix, wlocal[i]))
    /\ wpc' = [wpc EXCEPT ![i] = "done"]
    /\ UNCHANGED <<folder, phase, wlocal, collected, invalid_files, saved, requests>>
    /\ UNCHANGED matchVars
    /\ UNCHANGED fixVars

\* invalid_files.append(file.name)
AppendInvalid(i) ==
    /\ wpc[i] = "invalid"
    /\ invalid_files' = Append(invalid_files, i)
    /\ wpc' = [wpc EXCEPT ![i] = "done"]
    /\ UNCHANGED <<folder, phase, wlocal, collected, mods, saved, requests>>
    /\ UNCHANGED matchVars
    /\ UNCHANGED fixVars

\* one turn of "for future in as_completed(futures): future.result()":
\* result() re-raises what the worker raised, and nothing catches it
Collect(i) ==
    /\ phase = "collect"
    /\ i \notin collected
    /\ FutureDone(i)
    /\ IF wpc[i] = "raised"
       THEN phase' = "unwind" /\ UNCHANGED collected
       ELSE collected' = collected \cup {i} /\ UNCHANGED phase
    /\ UNCHANGED <<folder, wpc, wlocal, mods, invalid_files, saved, requests>>
    /\ UNCHANGED matchVars
    /\ UNCHANGED fixVars

\* the loop is over and the "with ThreadPoolExecutor()" block is left
ExitPool ==
    /\ phase = "collect"
    /\ collected = Files
    /\ \A i \in Files : FutureDone(i)
    /\ phase' = "sort"
    /\ UNCHANGED <<folder, wpc, wlocal, collected, mods, invalid_files, saved, requests>>
    /\ UNCHANGED matchVars
    /\ UNCHANGED fixVars

\* the exception leaves the with block, whose exit waits for the workers,
\* and then leaves list_mods: no sort, no save_json
Unwind ==
    /\ phase = "unwind"
    /\ \A i \in Files : FutureDone(i)
    /\ phase' = "aborted"
    /\ UNCHANGED <<folder, wpc, wlocal, collected, mods, invalid_files, saved, requests>>
    /\ UNCHANGED matchVars
    /\ UNCHANGED fixVars

\* mods_data["Mods"].sort(key=...)
Sort ==
    /\ phase = "sort"
    /\ mods' = SortMods(mods)
    /\ phase' = "save"
    /\ UNCHANGED <<folder, wpc, wlocal, collected, invalid_files, saved, requests>>
    /\ UNCHANGED matchVars
    /\ UNCHANGED fixVars

\* save_json(mods_data, filename)
Save ==
    /\ phase = "save"
    /\ saved' = mods
    /\ phase' = "report"
    /\ UNCHANGED <<folder, wpc, wlocal, collected, mods, invalid_files, requests>>
    /\ UNCHANGED matchVars
    /\ UNCHANGED fixVars

\* the report of the invalid files; list_mods returns
Report ==
    /\ phase = "report"
    /\ phase' = "done"
    /\ UNCHANGED <<folder, wpc, wlocal, collected, mods, invalid_files, saved, requests>>
    /\ UNCHANGED matchVars
    /\ UNCHANGED fixVars

Next ==
    \/ Submit
    \/ SubmitDone
    \/ \E i \in Files : Reader(i)
    \/ \E i \in Files : Request(i)
    \/ \E i \in Files : AppendMod(i)
    \/ \E i \in Files : AppendInvalid(i)
    \/ \E i \in Files : Collect(i)
    \/ ExitPool
    \/ Unwind
    \/ Sort
    \/ Save
    \/ Report

Spec == Init /\ [][Next]_vars

-----------------------------------------------------------------------------
(* The scan of a folder of archives, damaged ones among them *)

ArchiveContents ==
    { ZipFile("ok", ZipDesc(Str_Alpha, <<"A">>, Ver_1_0, <<"d">>)),
      ZipFile("ok", ZipDesc(Str_Zeta, EmptyStr, Ver_2_0, NullVal)),
      ZipFile("ok", ZipDesc(Str_alpha, NullVal, Ver_1_0, <<"d">>)),
      ZipFile("badentry", ZipDesc(Str_Zeta, <<"D">>, Ver_2_0, <<"d">>)),
      ZipFile("baddesc", ZipDesc(Str_Alpha, <<"A">>, Ver_1_0, <<"d">>)),
      ZipFile("notzip", NoFields) }

InitArchives ==
    /\ folder \in [Files -> ArchiveContents]
    /\ phase = "submit"
    /\ wpc = [i \in Files |-> "none"]
    /\ wlocal = [i \in Files |-> NoLocals]
    /\ collected = {}
    /\ mods = << >>
    /\ invalid_files = << >>
    /\ saved = << >>
    /\ requests = [i \in Files |-> 0]
    /\ MatcherIdle
    /\ FixIdle

SpecArchives == InitArchives /\ [][Next]_vars

-----------------------------------------------------------------------------
(* Direct calls of get_mainfile_for_version on bounded inputs *)

Ver_1_0_rc == <<"1", ".", "0", "-", "r", "c">>
Ver_1_0_RC == <<"1", ".", "0", "-", "R", "C">>

MatchVersions == {Ver_1_0, Ver_1_0_rc, Ver_1_0_RC}

\* releases as the catalog can list them: either key may be missing
MatchReleases ==
    { Release(v, u) : v \in MatchVersions \cup {NoKey}, u \in {Url_1, Url_2, NoKey} }

RECURSIVE SeqsUpTo(_, _)
SeqsUpTo(S, n) ==
    IF n = 0 THEN { << >> }
    ELSE LET shorter == SeqsUpTo(S, n - 1)
         IN shorter \cup { Append(q, x) : q \in shorter, x \in S }

InitMatch ==
    /\ folder = [i \in Files |-> [suffix |-> ".txt", state |-> "ok", desc |-> NoFields]]
    /\ phase = "off"
    /\ wpc = [i \in Files |-> "none"]
    /\ wlocal = [i \in Files |-> NoLocals]
    /\ collected = {}
    /\ mods = << >>
    /\ invalid_files = << >>
    /\ saved = << >>
    /\ requests = [i \in Files |-> 0]
    /\ mv_version \in MatchVersions
    /\ mv_releases \in SeqsUpTo(MatchReleases, MaxReleases)
    /\ mv_result = NotCalledYet
    /\ FixIdle

CallMatcher ==
    /\ mv_result = NotCalledYet
    /\ mv_result' = <<"returned", get_mainfile_for_version(mv_version, mv_releases)>>
    /\ UNCHANGED <<mv_version, mv_releases>>
    /\ UNCHANGED scanVars
    /\ UNCHANGED fixVars

NextMatch == CallMatcher

SpecMatch == InitMatch /\ [][NextMatch]_vars

-----------------------------------------------------------------------------
(* fix_json on descriptor texts: flat objects of string and null values *)

MaxLines == 4

Newline == "\n"

\* \s of the two regular expressions, and the whitespace json.loads skips
IsSpace(ch) == ch = " " \/ ch = Newline

\* the first position at or after p that holds no whitespace
RECURSIVE SkipSpace(_, _)
SkipSpace(text, p) ==
    IF p <= Len(text) /\ IsSpace(text[p]) THEN SkipSpace(text, p + 1) ELSE p

\* the position of the first newline at or after p, Len(text) + 1 if none
RECURSIVE LineEnd(_, _)
LineEnd(text, p) ==
    IF p <= Len(text) /\ text[p] # Newline THEN LineEnd(text, p + 1) ELSE p

\* ^ under re.MULTILINE
LineStart(text, p) == p = 1 \/ text[p - 1] = Newline

\* "//" at position q
CommentAt(text, q) == q + 1 <= Len(text) /\ text[q] = "/" /\ text[q + 1] = "/"

\* re.sub(r'^\s*//[^\n]*$', '', json_data, flags=re.MULTILINE), from position p on
RECURSIVE StripCommentsFrom(_, _)
StripCommentsFrom(text, p) ==
    IF p > Len(text) THEN << >>
    ELSE IF LineStart(text, p) /\ CommentAt(text, SkipSpace(text, p))
         THEN StripCommentsFrom(text, LineEnd(text, SkipSpace(text, p)))
         ELSE <<text[p]>> \o StripCommentsFrom(text, p + 1)

\* re.sub(r',\s*([}\]])', r'\1', json_data), from position p on: the pattern
\* is matched wherever it stands, inside a string value too
RECURSIVE StripCommasFrom(_, _)
StripCommasFrom(text, p) ==
    IF p > Len(text) THEN << >>
    ELSE LET q == SkipSpace(text, p + 1)
         IN IF text[p] = "," /\ q <= Len(text) /\ text[q] \in {"}", "]"}
            THEN <<text[q]>> \o StripCommasFrom(text, q + 1)
            ELSE <<text[p]>> \o StripCommasFrom(text, p + 1)

\* a dict as the sequence of its items, in insertion order
DictKeys(d) == { d[k][1] : k \in 1..Len(d) }

\* d[key] = value: a key already there keeps its place
DictSet(d, key, value) ==
    IF key \in DictKeys(d)
    THEN [k \in 1..Len(d) |-> IF d[k][1] = key THEN <<key, value>> ELSE d[k]]
    ELSE Append(d, <<key, value>>)

ParseFail == [ok |-> FALSE, val |-> << >>, next |-> 0]

\* the position of the quote that closes a string whose text starts at p,
\* 0 when the line or the text ends first
RECURSIVE ClosingQuote(_, _)
ClosingQuote(text, p) ==
    IF p > Len(text) \/ text[p] = Newline THEN 0
    ELSE IF text[p] = "\"" THEN p
    ELSE ClosingQuote(text, p + 1)

\* json.loads on a string literal at position p
ParseString(text, p) ==
    IF p > Len(text) \/ text[p] # "\"" THEN ParseFail
    ELSE LET q == ClosingQuote(text, p + 1)
         IN IF q = 0 THEN ParseFail
            ELSE [ok |-> TRUE, val |-> SubSeq(text, p + 1, q - 1), next |-> q + 1]

\* json.loads on a value at position p: a string or null
ParseValue(text, p) ==
    IF p + 3 <= Len(text) /\ SubSeq(text, p, p + 3) = <<"n", "u", "l", "l">>
    THEN [ok |-> TRUE, val |-> NullVal, next |-> p + 4]
    ELSE ParseString(text, p)

\* the members of an object from the key at position p on, added to d;
\* next is the position after the closing brace
RECURSIVE ParseMembers(_, _, _)
ParseMembers(text, p, d) ==
    LET key == ParseString(text, p)
        colon == SkipSpace(text, key.next)
        value == ParseValue(text, SkipSpace(text, colon + 1))
        after == SkipSpace(text, value.next)
    IN IF ~key.ok \/ colon > Len(text) \/ text[colon] # ":" THEN ParseFail
       ELSE IF ~value.ok \/ after > Len(text) THEN ParseFail
       ELSE IF text[after] = "}"
            THEN [ok |-> TRUE, val |-> DictSet(d, key.val, value.val), next |-> after + 1]
       ELSE IF text[after] = ","
            THEN ParseMembers(text, SkipSpace(text, after + 1),
                              DictSet(d, key.val, value.val))
       ELSE ParseFail

\* json.loads: an object and nothing but whitespace around it
json_loads(text) ==
    LET open == SkipSpace(text, 1)
        first == SkipSpace(text, open + 1)
        obj == IF open > Len(text) \/ text[open] # "{" THEN ParseFail
               ELSE IF first <= Len(text) /\ text[first] = "}"
                    THEN [ok |-> TRUE, val |-> << >>, next |-> first + 1]
               ELSE ParseMembers(text, first, << >>)
    IN IF obj.ok /\ SkipSpace(text, obj.next) > Len(text) THEN obj ELSE ParseFail

\* sanitize_json_data on a dict: every value through sanitize_json_data
SanitizeDict(d) == [k \in 1..Len(d) |-> <<d[k][1], sanitize_json_data(d[k][2])>>]

Key_website == <<"w", "e", "b", "s", "i", "t", "e">>

\* if "website" in data: del data["website"]
DelWebsite(d) == SelectSeq(d, LAMBDA item : item[1] # Key_website)

Quoted(str) == <<"\"">> \o str \o <<"\"">>

\* the items of json.dumps(data, indent=2), one per line
RECURSIVE DumpItems(_)
DumpItems(d) ==
    IF Len(d) = 0 THEN << >>
    ELSE <<" ", " ">> \o Quoted(Head(d)[1]) \o <<":", " ">> \o Quoted(Head(d)[2])
         \o (IF Len(d) > 1 THEN <<",">> ELSE << >>) \o <<Newline>> \o DumpItems(Tail(d))

\* json.dumps(data, indent=2)
json_dumps(d) ==
    IF Len(d) = 0 THEN <<"{", "}">>
    ELSE <<"{", Newline>> \o DumpItems(d) \o <<"}">>

\* "Error: Invalid JSON data"
InvalidJson ==
    <<"E", "r", "r", "o", "r", ":", " ", "I", "n", "v", "a", "l", "i", "d", " ",
      "J", "S", "O", "N", " ", "d", "a", "t", "a">>

fix_json(json_data) ==
    LET uncommented == StripCommentsFrom(json_data, 1)
        repaired == StripCommasFrom(uncommented, 1)
        data == json_loads(repaired)
    IN IF ~data.ok THEN InvalidJson
       ELSE json_dumps(DelWebsite(SanitizeDict(data.val)))

\* the lines a descriptor text of the model is made of
DescriptorLines ==
    { <<"{">>,
      <<"}">>,
      <<"/", "/", " ", "c">>,
      <<"\"", "n", "\"", ":", " ", "\"", "a", "\"", ",">>,
      <<"\"", "m", "\"", ":", " ", "n", "u", "l", "l">>,
      <<"\"">> \o Key_website \o <<"\"", ":", " ", "\"", "w", "\"", ",">>,
      <<" ", "\"", "n", "\"", ":", " ", "\"", ",", ",", "}", "\"", ",">> }

\* "\n".join(lines)
RECURSIVE JoinLines(_)
JoinLines(lines) ==
    IF Len(lines) = 0 THEN << >>
    ELSE IF Len(lines) = 1 THEN lines[1]
    ELSE lines[1] \o <<Newline>> \o JoinLines(Tail(lines))

InitFix ==
    /\ folder = [i \in Files |-> [suffix |-> ".txt", state |-> "ok", desc |-> NoFields]]
    /\ phase = "off"
    /\ wpc = [i \in Files |-> "none"]
    /\ wlocal = [i \in Files |-> NoLocals]
    /\ collected = {}
    /\ mods = << >>
    /\ invalid_files = << >>
    /\ saved = << >>
    /\ requests = [i \in Files |-> 0]
    /\ MatcherIdle
    /\ fj_text \in { JoinLines(lines) : lines \in SeqsUpTo(DescriptorLines, MaxLines) }
    /\ fj_once = NotCalledYet
    /\ fj_twice = NotCalledYet

\* fixed_json = fix_json(raw_json)
FixOnce ==
    /\ fj_once = NotCalledYet
    /\ fj_once' = fix_json(fj_text)
    /\ UNCHANGED <<fj_text, fj_twice>>
    /\ UNCHANGED scanVars
    /\ UNCHANGED matchVars

\* fix_json applied to its own result
FixTwice ==
    /\ fj_once # NotCalledYet
    /\ fj_twice = NotCalledYet
    /\ fj_twice' = fix_json(fj_once)
    /\ UNCHANGED <<fj_text, fj_once>>
    /\ UNCHANGED scanVars
    /\ UNCHANGED matchVars

NextFix == FixOnce \/ FixTwice

SpecFix == InitFix /\ [][NextFix]_vars

-----------------------------------------------------------------------------
(* Properties *)

\* positions of candidate i's records in the shared manifest list
InMods(i) == { k \in 1..Len(mods) : mods[k].File = i }

\* positions of candidate i's name in the shared invalid list
InInvalid(i) == { k \in 1..Len(invalid_files) : invalid_files[k] = i }

\* a manifest without the File bookkeeping field: what json.dump writes
Strip(s) ==
    [k \in 1..Len(s) |->
        [Name |-> s[k].Name, Version |-> s[k].Version, ModId |-> s[k].ModId,
         Description |-> s[k].Description, Side |-> s[k].Side,
         url_mod |-> s[k].url_mod, url_download |-> s[k].url_download]]

SortStarted == phase \in {"sort", "save", "report", "done"}
Saved == phase \in {"report", "done"}

\* C1: no failure of a single candidate aborts the scan: list_mods never
\* ends without having reached the final sort and save_json.
C1_NoFailureAbortsScan == phase # "aborted"

\* C2: a candidate that passed its reader and got no matching release is in
\* the manifest once, not in the invalid list, and its record has
\* Side = "Unknown", url_mod = url_download = "Local mod only".
C2_NoMatchKeepsDefaults ==
    \A i \in Files :
        (/\ wpc[i] = "done"
         /\ ReaderOutcome(folder[i]) = "read"
         /\ ~Truthy(MatchedMainfile(wlocal[i])))
        => /\ Cardinality(InMods(i)) = 1
           /\ InInvalid(i) = {}
           /\ \A k \in InMods(i) :
                /\ mods[k].Side = "Unknown"
                /\ mods[k].url_mod = LocalOnly
                /\ mods[k].url_download = LocalOnly

Populated(u) == u # LocalOnly /\ u # NoKey

\* C3: in every record of the manifest list url_mod and url_download are
\* both the sentinel, or both populated, and populated only when a matching
\* release was found.
C3_UrlsPaired ==
    \A k \in 1..Len(mods) :
        \/ mods[k].url_mod = LocalOnly /\ mods[k].url_download = LocalOnly
        \/ /\ Populated(mods[k].url_mod)
           /\ Populated(mods[k].url_download)
           /\ Truthy(MatchedMainfile(wlocal[mods[k].File]))

\* C4: when a release matches the local version the record's Side is the
\* catalog's side, url_mod is MOD_DB_URL + assetid and url_download is
\* make_dl_link of the release's mainfile.
C4_MatchRewritesTriple ==
    \A k \in 1..Len(mods) :
        LET loc == wlocal[mods[k].File]
            mainfile == MatchedMainfile(loc)
        IN Truthy(mainfile) =>
             /\ mods[k].Side = loc.api.side
             /\ mods[k].url_mod = <<MOD_DB_URL, loc.api.assetid>>
             /\ mods[k].url_download = make_dl_link(mainfile)

\* C5: once all workers have completed, every .zip or .cs candidate is in
\* exactly one of the manifest and the invalid list, exactly once, and every
\* other candidate is in neither.
C5_EachCandidateOnce ==
    (\A i \in Files : wpc[i] = "done") =>
        \A i \in Files :
            IF folder[i].suffix \in {".zip", ".cs"}
            THEN Cardinality(InMods(i)) + Cardinality(InInvalid(i)) = 1
            ELSE InMods(i) = {} /\ InInvalid(i) = {}

\* two workers raced, one record and one invalid name were appended
C5_Witness ==
    /\ \A i \in Files : wpc[i] = "done"
    /\ \E i, j \in Files :
        /\ i < j
        /\ InMods(i) # {}
        /\ InInvalid(j) # {}

\* the records of the candidates that passed their readers, in listing order
RECURSIVE InOrderRecords(_)
InOrderRecords(n) ==
    IF n = 0 THEN << >>
    ELSE IF ReaderOutcome(folder[n]) = "read"
         THEN Append(InOrderRecords(n - 1), ModEntry(n, folder[n].suffix, wlocal[n]))
         ELSE InOrderRecords(n - 1)

\* C6: the saved manifest does not depend on the order in which the workers
\* complete: it is the manifest of the run whose workers complete in
\* listing order, for the same candidates and catalog answers.
C6_ManifestDeterministic ==
    Saved => Strip(saved) = Strip(SortMods(InOrderRecords(NumFiles)))

\* the lower-cased ModId of a record, "" for an empty ModId
LoweredId(rec) ==
    IF rec.ModId = NoneVal \/ rec.ModId = EmptyStr THEN EmptyStr ELSE Lower(rec.ModId)

C8_SortAfterAllWorkers ==
    /\ [](SortStarted => \A i \in Files : wpc[i] \in {"done", "raised"})
    /\ [][SortStarted =>
            /\ wpc' = wpc
            /\ Len(mods') = Len(mods)
            /\ invalid_files' = invalid_files]_vars

\* the sort is about to run on what the workers appended
C8_Witness ==
    /\ phase = "sort"
    /\ Len(mods) >= 1
    /\ Len(invalid_files) >= 1

\* the catalog identifier of candidate i, None when its reader yields none
CandidateId(i) ==
    CASE folder[i].suffix = ".zip" -> get_modinfo_from_zip(folder[i]).modid
      [] folder[i].suffix = ".cs" /\ ~cs_raises(folder[i]) -> get_cs_info(folder[i]).modid
      [] OTHER -> NoneVal

\* C9: at most one catalog request is issued per candidate, and none for a
\* candidate whose identifier is empty or absent.
C9_AtMostOneRequest ==
    \A i \in Files :
        /\ requests[i] <= 1
        /\ ~Truthy(CandidateId(i)) => requests[i] = 0

\* a request failed and was not repeated; an archive whose modid is null
\* finished without any request
C9_Witness ==
    \E i, j \in Files :
        /\ wpc[i] = "done" /\ requests[i] = 1
        /\ wlocal[i].api.assetid = NoneVal
        /\ wpc[j] = "done" /\ requests[j] = 0
        /\ folder[j].suffix = ".zip" /\ folder[j].state = "ok"
        /\ CandidateId(j) = EmptyStr

\* positions of the releases whose modversion equals v exactly
MatchingReleases(v, releases) ==
    { k \in 1..Len(releases) : releases[k].modversion = v }

FirstMatch(v, releases) ==
    CHOOSE k \in MatchingReleases(v, releases) :
        \A m \in MatchingReleases(v, releases) : k <= m

\* C10: get_mainfile_for_version(v, releases) returns the mainfile of the first
\* release, in the given order, whose modversion equals v exactly, and None
\* when no release's modversion equals v.
C10_FirstExactMatch ==
    mv_result # NotCalledYet =>
        /\ mv_result[1] = "returned"
        /\ IF MatchingReleases(mv_version, mv_releases) = {}
           THEN mv_result[2] = NoneVal
           ELSE LET rel == mv_releases[FirstMatch(mv_version, mv_releases)]
                IN mv_result[2] = (IF rel.mainfile = NoKey THEN NoneVal ELSE rel.mainfile)

\* a later release matches exactly; an earlier one differs only in case
C10_Witness ==
    /\ mv_result # NotCalledYet
    /\ Len(mv_releases) = 2
    /\ mv_version = Ver_1_0_rc
    /\ mv_releases[1].modversion = Ver_1_0_RC
    /\ mv_releases[1].mainfile = Url_1
    /\ mv_releases[2].modversion = Ver_1_0_rc
    /\ mv_result[2] = Url_2

\* the scan has ended: list_mods returned or was left by an exception
ScanEnded == phase \in {"done", "aborted"}

\* the descriptor of archive i is valid with non-null modid, name and version
ValidDescriptor(i) ==
    /\ folder[i].suffix = ".zip"
    /\ folder[i].state = "ok"
    /\ \A v \in {folder[i].desc.modid, folder[i].desc.name, folder[i].desc.version} :
        v # NullVal /\ v # NoneVal

\* C11: an archive whose descriptor is valid with non-null modid, name and
\* version is in the manifest list once, not in the invalid list, with Name,
\* Version and ModId equal to the descriptor's values.
C11_ValidArchiveInManifest ==
    ScanEnded =>
        \A i \in Files :
            ValidDescriptor(i) =>
                /\ Cardinality(InMods(i)) = 1
                /\ InInvalid(i) = {}
                /\ \A k \in InMods(i) :
                    /\ mods[k].Name = folder[i].desc.name
                    /\ mods[k].Version = folder[i].desc.version
                    /\ mods[k].ModId = folder[i].desc.modid

\* the integrity test fails on an entry of archive i
IntegrityFails(i) ==
    folder[i].suffix = ".zip" /\ folder[i].state \in {"badentry", "baddesc"}

\* C12: an archive whose integrity test fails on any entry never gets a
\* record in the manifest list, and once its worker is done its name is in
\* the invalid list.
C12_CorruptArchiveInvalid ==
    \A i \in Files :
        IntegrityFails(i) =>
            /\ InMods(i) = {}
            /\ wpc[i] = "done" => Cardinality(InInvalid(i)) = 1

\* C13: fix_json is idempotent: fix_json(fix_json(t)) = fix_json(t) for every
\* descriptor text t.
C13_FixJsonIdempotent ==
    fj_twice # NotCalledYet => fj_twice = fj_once

====
